---- MODULE Spec2Model ----
(***************************************************************************)
(* Model of the PSP-20 token contract of src/lib.rs (mod psp20).           *)
(*                                                                         *)
(* storage  the Psp20 struct: total_supply, balances, allowances.  The two *)
(*          StorageHashMaps are partial functions: a key that was never    *)
(*          inserted is absent, and reads go through the *_or_zero helpers.*)
(* events   the events recorded by the environment, in emission order.     *)
(* last     the constructor or message call that has just returned: its    *)
(*          name, its caller, its arguments, what it returned, and whether *)
(*          it left storage and events as they were (noop); Idle once the  *)
(*          environment has closed the call.                               *)
(* hist     history, kept for the properties only: for every pair (owner,  *)
(*          spender) the value of the owner's most recent approve (0 if    *)
(*          none) and the total value moved since by the spender's         *)
(*          successful transfer_from calls.                                *)
(***************************************************************************)
EXTENDS Integers, Sequences, FiniteSets, TLC

VARIABLES storage, events, last, hist

vars == <<storage, events, last, hist>>

(***************************************************************************)
(* Bounds.                                                                 *)
(***************************************************************************)
\* Largest value of the Balance type (u128::MAX in the program).
MaxBalance == 1
\* Longest event log explored: messages are accepted while it is shorter.
MaxEvents == 3

\* AccountIds are opaque: the contract only compares them.  Three of them
\* give a caller, an owner and a receiver that all differ.
Accounts == {"alice", "bob", "eve"}
\* The account that deploys the contract in the runs of Spec.
Creator == "alice"
\* Option<AccountId>::None in events, and an unused argument in `last`.
None == "none"
Balance == 0..MaxBalance
\* Balance arithmetic wraps modulo this when overflow checks are off.
Modulus == MaxBalance + 1
\* Outcome of an arithmetic operation that panics (overflow checks on).
Panic == 0 - 1

(***************************************************************************)
(* StorageHashMap                                                          *)
(***************************************************************************)
EmptyMap == << >>

insert(map, key, value) ==
    [k \in (DOMAIN map) \cup {key} |-> IF k = key THEN value ELSE map[k]]

get_or(map, key, default) ==
    IF key \in DOMAIN map THEN map[key] ELSE default

(***************************************************************************)
(* Balance arithmetic.  The program writes `a - b` and `a + b` on u128:    *)
(* inside the range the result is exact; outside it the build decides      *)
(* (a panic with overflow checks, a wrapped value without).                *)
(***************************************************************************)
balance_sub(a, b) ==
    IF a - b >= 0 THEN {a - b} ELSE {Panic, (a - b) % Modulus}

balance_add(a, b) ==
    IF a + b <= MaxBalance THEN {a + b} ELSE {Panic, (a + b) % Modulus}

(***************************************************************************)
(* Events                                                                  *)
(***************************************************************************)
Transfer(from, to, value) ==
    [kind |-> "Transfer", from |-> from, to |-> to, value |-> value]

Approval(owner, spender, value) ==
    [kind |-> "Approval", owner |-> owner, spender |-> spender, value |-> value]

(***************************************************************************)
(* Outcomes of a message: it returns `ret` leaving the storage `self` and  *)
(* having emitted `emitted`, or it traps (panics), and then the            *)
(* environment keeps the storage of before the call.                       *)
(***************************************************************************)
Return(self, ret, emitted) ==
    [trap |-> FALSE, ret |-> ret, self |-> self, emitted |-> emitted]

Trap(self) ==
    [trap |-> TRUE, ret |-> FALSE, self |-> self, emitted |-> << >>]

(***************************************************************************)
(* Queries and private helpers                                             *)
(***************************************************************************)
balance_of_or_zero(self, owner) == get_or(self.balances, owner, 0)

allowance_of_or_zero(self, owner, spender) ==
    get_or(self.allowances, <<owner, spender>>, 0)

\* Faulty variant of allowance: owner and spender in the wrong order.
allowance_swapped(self, owner, spender) ==
    allowance_of_or_zero(self, spender, owner)

total_supply(self) == self.total_supply

balance_of(self, owner) == balance_of_or_zero(self, owner)

allowance(self, owner, spender) == allowance_of_or_zero(self, owner, spender)

(***************************************************************************)
(* Faulty variants of transfer_from_to, used to test the properties below. *)
(***************************************************************************)
\* Reads the receiver's balance before the sender's balance is written.
transfer_from_to_stale_read(self, from, to, value) ==
    LET from_balance == balance_of_or_zero(self, from)
        to_balance == balance_of_or_zero(self, to)
    IN
    IF from_balance < value
    THEN {Return(self, FALSE, << >>)}
    ELSE UNION {
        IF d = Panic THEN {Trap(self)}
        ELSE LET s1 == [self EXCEPT !.balances = insert(@, from, d)]
             IN  { IF a = Panic THEN Trap(self)
                   ELSE Return([s1 EXCEPT !.balances = insert(@, to, a)],
                               TRUE,
                               <<Transfer(from, to, value)>>)
                   : a \in balance_add(to_balance, value) }
        : d \in balance_sub(from_balance, value) }

\* Does not check the sender's balance.
transfer_from_to_unchecked(self, from, to, value) ==
    LET from_balance == balance_of_or_zero(self, from) IN
    UNION {
        IF d = Panic THEN {Trap(self)}
        ELSE LET s1 == [self EXCEPT !.balances = insert(@, from, d)]
                 to_balance == balance_of_or_zero(s1, to)
             IN  { IF a = Panic THEN Trap(self)
                   ELSE Return([s1 EXCEPT !.balances = insert(@, to, a)],
                               TRUE,
                               <<Transfer(from, to, value)>>)
                   : a \in balance_add(to_balance, value) }
        : d \in balance_sub(from_balance, value) }

\* Takes a transfer to the sender itself out of the total supply.
transfer_from_to_burn(self, from, to, value) ==
    LET from_balance == balance_of_or_zero(self, from) IN
    IF from_balance < value
    THEN {Return(self, FALSE, << >>)}
    ELSE UNION {
        IF d = Panic THEN {Trap(self)}
        ELSE LET s1 == [self EXCEPT !.balances = insert(@, from, d)]
                 to_balance == balance_of_or_zero(s1, to)
             IN  { IF a = Panic THEN Trap(self)
                   ELSE Return([s1 EXCEPT !.balances = insert(@, to, a),
                                          !.total_supply =
                                              IF from = to THEN @ - value ELSE @],
                               TRUE,
                               <<Transfer(from, to, value)>>)
                   : a \in balance_add(to_balance, value) }
        : d \in balance_sub(from_balance, value) }

(***************************************************************************)
(* fn transfer_from_to(&mut self, from, to, value) -> bool                 *)
(* The set of outcomes of the call on storage `self`.                      *)
(***************************************************************************)
transfer_from_to(self, from, to, value) ==
    LET from_balance == balance_of_or_zero(self, from) IN
    IF from_balance < value
    THEN {Return(self, FALSE, << >>)}
    ELSE UNION {
        IF d = Panic THEN {Trap(self)}
        ELSE LET s1 == [self EXCEPT !.balances = insert(@, from, d)]
                 to_balance == balance_of_or_zero(s1, to)
             IN  { IF a = Panic THEN Trap(self)
                   ELSE Return([s1 EXCEPT !.balances = insert(@, to, a)],
                               TRUE,
                               <<Transfer(from, to, value)>>)
                   : a \in balance_add(to_balance, value) }
        : d \in balance_sub(from_balance, value) }

(***************************************************************************)
(* Faulty variants of the message bodies.                                  *)
(***************************************************************************)
\* Passes sender and receiver in the wrong order.
transfer_body_swapped(self, caller, to, value) ==
    transfer_from_to(self, to, caller, value)

\* Adds the value to the allowance already there.
approve_body_accumulate(self, caller, spender, value) ==
    LET owner == caller IN
    {Return([self EXCEPT !.allowances =
                 insert(@, <<owner, spender>>,
                        allowance_of_or_zero(self, owner, spender) + value)],
            TRUE,
            <<Approval(owner, spender, value)>>)}

\* Looks up the allowance the caller gave to `from`.
transfer_from_body_swapped_lookup(self, caller, from, to, value) ==
    LET cur_allowance == allowance_of_or_zero(self, caller, from) IN
    IF cur_allowance < value
    THEN {Return(self, FALSE, << >>)}
    ELSE UNION {
        IF d = Panic THEN {Trap(self)}
        ELSE transfer_from_to(
                 [self EXCEPT !.allowances = insert(@, <<from, caller>>, d)],
                 from, to, value)
        : d \in balance_sub(cur_allowance, value) }

\* Does not decrease the allowance.
transfer_from_body_keep_allowance(self, caller, from, to, value) ==
    LET cur_allowance == allowance_of_or_zero(self, from, caller) IN
    IF cur_allowance < value
    THEN {Return(self, FALSE, << >>)}
    ELSE transfer_from_to(self, from, to, value)

\* Records the allowance without emitting the Approval event.
approve_body_silent(self, caller, spender, value) ==
    LET owner == caller IN
    {Return([self EXCEPT !.allowances = insert(@, <<owner, spender>>, value)],
            TRUE,
            << >>)}

\* Refuses an allowance above the caller's balance.
approve_body_reserving(self, caller, spender, value) ==
    LET owner == caller IN
    IF balance_of_or_zero(self, owner) < value
    THEN {Return(self, FALSE, << >>)}
    ELSE {Return([self EXCEPT
                      !.allowances = insert(@, <<owner, spender>>, value)],
                 TRUE,
                 <<Approval(owner, spender, value)>>)}

\* Decreases the allowance only after the transfer has succeeded.
transfer_from_body_atomic(self, caller, from, to, value) ==
    LET cur_allowance == allowance_of_or_zero(self, from, caller) IN
    IF cur_allowance < value
    THEN {Return(self, FALSE, << >>)}
    ELSE UNION {
        IF d = Panic THEN {Trap(self)}
        ELSE { IF out.trap \/ ~out.ret THEN out
               ELSE [out EXCEPT !.self.allowances =
                                    insert(@, <<from, caller>>, d)]
               : out \in transfer_from_to(self, from, to, value) }
        : d \in balance_sub(cur_allowance, value) }

\* Does not check the allowance.
transfer_from_body_unchecked(self, caller, from, to, value) ==
    LET cur_allowance == allowance_of_or_zero(self, from, caller) IN
    UNION {
        IF d = Panic THEN {Trap(self)}
        ELSE transfer_from_to(
                 [self EXCEPT !.allowances = insert(@, <<from, caller>>, d)],
                 from, to, value)
        : d \in balance_sub(cur_allowance, value) }

\* Writes the decreased allowance under (caller, from).
transfer_from_body_wrong_entry(self, caller, from, to, value) ==
    LET cur_allowance == allowance_of_or_zero(self, from, caller) IN
    IF cur_allowance < value
    THEN {Return(self, FALSE, << >>)}
    ELSE UNION {
        IF d = Panic THEN {Trap(self)}
        ELSE transfer_from_to(
                 [self EXCEPT !.allowances = insert(@, <<caller, from>>, d)],
                 from, to, value)
        : d \in balance_sub(cur_allowance, value) }

\* Refuses a value equal to the allowance.
transfer_from_body_strict(self, caller, from, to, value) ==
    LET cur_allowance == allowance_of_or_zero(self, from, caller) IN
    IF cur_allowance <= value
    THEN {Return(self, FALSE, << >>)}
    ELSE UNION {
        IF d = Panic THEN {Trap(self)}
        ELSE transfer_from_to(
                 [self EXCEPT !.allowances = insert(@, <<from, caller>>, d)],
                 from, to, value)
        : d \in balance_sub(cur_allowance, value) }

(***************************************************************************)
(* Message bodies, as sets of outcomes                                     *)
(***************************************************************************)
transfer_body(self, caller, to, value) ==
    transfer_from_to(self, caller, to, value)

approve_body(self, caller, spender, value) ==
    LET owner == caller IN
    {Return([self EXCEPT !.allowances = insert(@, <<owner, spender>>, value)],
            TRUE,
            <<Approval(owner, spender, value)>>)}

transfer_from_body(self, caller, from, to, value) ==
    LET cur_allowance == allowance_of_or_zero(self, from, caller) IN
    IF cur_allowance < value
    THEN {Return(self, FALSE, << >>)}
    ELSE UNION {
        IF d = Panic THEN {Trap(self)}
        ELSE transfer_from_to(
                 [self EXCEPT !.allowances = insert(@, <<from, caller>>, d)],
                 from, to, value)
        : d \in balance_sub(cur_allowance, value) }

(***************************************************************************)
(* The environment runs a message: a returned call commits its storage and *)
(* its events, a trapped call is reverted.                                 *)
(***************************************************************************)
\* The history of a pair: a pair without entry has none.
HistoryOf(h, owner, spender) ==
    get_or(h, <<owner, spender>>, [approved |-> 0, moved |-> 0])

\* The history after a call that returned `ret`.
Record(op, caller, from, to, value, ret) ==
    IF op = "approve" /\ ret
    THEN insert(hist, <<caller, to>>, [approved |-> value, moved |-> 0])
    ELSE IF op = "transfer_from" /\ ret /\ value > 0
    THEN insert(hist, <<from, caller>>,
                [HistoryOf(hist, from, caller) EXCEPT !.moved = @ + value])
    ELSE hist

\* No approve and no transfer_from yet.
NoHistory == EmptyMap

Commit(op, caller, from, to, value, out) ==
    /\ hist' = IF out.trap THEN hist
               ELSE Record(op, caller, from, to, value, out.ret)
    /\ storage' = IF out.trap THEN storage ELSE out.self
    /\ events' = IF out.trap THEN events ELSE events \o out.emitted

Call(op, caller, from, to, value, out) ==
    /\ Commit(op, caller, from, to, value, out)
    /\ last' = [op |-> op, caller |-> caller, from |-> from, to |-> to,
                value |-> value, ret |-> out.ret, trap |-> out.trap,
                noop |-> out.trap \/ (out.self = storage /\ out.emitted = << >>)]

\* Faulty variant of new: the initial supply is not credited to the caller.
new_uncredited(caller, initial_supply) ==
    /\ storage = [total_supply |-> initial_supply,
                  balances |-> EmptyMap,
                  allowances |-> EmptyMap]
    /\ events = <<Transfer(None, caller, initial_supply)>>
    /\ last = [op |-> "new", caller |-> caller, from |-> None, to |-> None,
               value |-> initial_supply, ret |-> TRUE, trap |-> FALSE,
               noop |-> FALSE]
    /\ hist = NoHistory

\* pub fn new(initial_supply: Balance) -> Self, called by `caller`.
new(caller, initial_supply) ==
    /\ storage = [total_supply |-> initial_supply,
                  balances |-> insert(EmptyMap, caller, initial_supply),
                  allowances |-> EmptyMap]
    /\ events = <<Transfer(None, caller, initial_supply)>>
    /\ last = [op |-> "new", caller |-> caller, from |-> None, to |-> None,
               value |-> initial_supply, ret |-> TRUE, trap |-> FALSE,
               noop |-> FALSE]
    /\ hist = NoHistory

\* The contract deployed by Creator with any initial supply.
Init == \E initial_supply \in Balance : new(Creator, initial_supply)

\* The contract deployed by any account with any initial supply.
InitAny == \E caller \in Accounts, initial_supply \in Balance :
               new(caller, initial_supply)

(***************************************************************************)
(* Exploration.  The event log is explored up to MaxEvents entries.  A     *)
(* call that left storage and events as they were can be dropped from a    *)
(* run without changing any state after it, so runs are not continued      *)
(* after such a call: every reachable storage is still reached, and every  *)
(* message is still tried in it.  The environment closes a call (EndCall)  *)
(* before it runs the next one; the constructor's call is closed by the    *)
(* first message.                                                          *)
(***************************************************************************)
Idle == [op |-> "idle", caller |-> None, from |-> None, to |-> None,
         value |-> 0, ret |-> FALSE, trap |-> FALSE, noop |-> FALSE]

Accepting == Len(events) < MaxEvents /\ last.op \in {"new", "idle"}

EndCall ==
    /\ Len(events) < MaxEvents
    /\ last.op \notin {"new", "idle"}
    /\ ~last.noop
    /\ last' = Idle
    /\ UNCHANGED <<storage, events, hist>>

transfer(caller, to, value) ==
    \E out \in transfer_body(storage, caller, to, value) :
           Call("transfer", caller, caller, to, value, out)

approve(caller, spender, value) ==
    \E out \in approve_body(storage, caller, spender, value) :
           Call("approve", caller, caller, spender, value, out)

transfer_from(caller, from, to, value) ==
    \E out \in transfer_from_body(storage, caller, from, to, value) :
           Call("transfer_from", caller, from, to, value, out)

DoTransfer ==
    /\ Accepting
    /\ \E caller \in Accounts, to \in Accounts, value \in Balance :
           transfer(caller, to, value)

DoApprove ==
    /\ Accepting
    /\ \E caller \in Accounts, spender \in Accounts, value \in Balance :
           approve(caller, spender, value)

DoTransferFrom ==
    /\ Accepting
    /\ \E caller \in Accounts, from \in Accounts, to \in Accounts,
          value \in Balance :
           transfer_from(caller, from, to, value)

Next == DoTransfer \/ DoApprove \/ DoTransferFrom \/ EndCall

Spec == Init /\ [][Next]_vars

(***************************************************************************)
(* The queries as calls.  They take &self: the environment gets a value    *)
(* back and nothing else happens.  `last` holds the owner and the spender  *)
(* asked about in from and to, and the value returned in value.  A query   *)
(* may be repeated, by any caller, right after it.                         *)
(***************************************************************************)
QueryOps == {"total_supply", "balance_of", "allowance"}

Query(op, caller, owner, spender, result) ==
    /\ \/ Accepting
       \/ last.op = op /\ last.from = owner /\ last.to = spender
    /\ last' = [op |-> op, caller |-> caller, from |-> owner, to |-> spender,
                value |-> result, ret |-> TRUE, trap |-> FALSE, noop |-> TRUE]
    /\ UNCHANGED <<storage, events, hist>>

DoTotalSupply ==
    \E caller \in Accounts :
        Query("total_supply", caller, None, None, total_supply(storage))

DoBalanceOf ==
    \E caller \in Accounts, owner \in Accounts :
        Query("balance_of", caller, owner, None, balance_of(storage, owner))

DoAllowance ==
    \E caller \in Accounts, owner \in Accounts, spender \in Accounts :
        Query("allowance", caller, owner, spender,
              allowance(storage, owner, spender))

\* A message between queries: it runs as in Call and is closed at once.
Mutate ==
    /\ Accepting
    /\ last' = Idle
    /\ \E caller \in Accounts, from \in Accounts, to \in Accounts,
          value \in Balance :
           \/ /\ from = caller
              /\ \E out \in transfer_body(storage, caller, to, value) :
                     Commit("transfer", caller, caller, to, value, out)
           \/ /\ from = caller
              /\ \E out \in approve_body(storage, caller, to, value) :
                     Commit("approve", caller, caller, to, value, out)
           \/ \E out \in transfer_from_body(storage, caller, from, to, value) :
                  Commit("transfer_from", caller, from, to, value, out)

NextQueries == Mutate \/ DoTotalSupply \/ DoBalanceOf \/ DoAllowance

\* Queries in every storage the messages reach.
SpecQueries == Init /\ [][NextQueries]_vars

\* Deployment by any account, followed by one message.
NextNew ==
    \/ last.op = "new" /\ DoTransfer
    \/ last.op = "new" /\ DoApprove
    \/ last.op = "new" /\ DoTransferFrom

SpecNew == InitAny /\ [][NextNew]_vars

(***************************************************************************)
(* What the queries show of a storage.                                     *)
(***************************************************************************)
BalancesOf(self) == [a \in Accounts |-> balance_of(self, a)]

AllowancesOf(self) ==
    [p \in Accounts \X Accounts |-> allowance(self, p[1], p[2])]

RECURSIVE SumOver(_, _)
SumOver(f, S) ==
    IF S = {} THEN 0
    ELSE LET a == CHOOSE x \in S : TRUE IN f[a] + SumOver(f, S \ {a})

SumBalances(self) == SumOver(BalancesOf(self), Accounts)

\* The last call returned `ret` (it did not trap).
Returned(l, ret) == ~l.trap /\ l.ret = ret

(***************************************************************************)
(* C1  Conservation: in every reachable state the total supply equals the  *)
(* sum of the balances of all accounts.                                    *)
(***************************************************************************)
C1_Conservation == total_supply(storage) = SumBalances(storage)

\* A successful self-transfer of a positive value has happened.
C1_Witness ==
    /\ last.op = "transfer" /\ Returned(last, TRUE)
    /\ last.to = last.caller /\ last.value > 0

(***************************************************************************)
(* C2  Every transfer or transfer_from that returns false leaves balances, *)
(* allowances and total supply as they were and emits no event.            *)
(***************************************************************************)
C2_FailedCallChangesNothing ==
    [][(last'.op \in {"transfer", "transfer_from"} /\ Returned(last', FALSE))
        => /\ BalancesOf(storage') = BalancesOf(storage)
           /\ AllowancesOf(storage') = AllowancesOf(storage)
           /\ total_supply(storage') = total_supply(storage)
           /\ events' = events]_vars

(***************************************************************************)
(* C3  transfer_from by a caller whose allowance from `from` is below      *)
(* `value` returns false, changes no balance and no allowance and emits no *)
(* event, whatever the balance of `from`, also when caller = from.         *)
(***************************************************************************)
C3_InsufficientAllowance ==
    [][(/\ last'.op = "transfer_from"
        /\ allowance(storage, last'.from, last'.caller) < last'.value)
        => /\ Returned(last', FALSE)
           /\ BalancesOf(storage') = BalancesOf(storage)
           /\ AllowancesOf(storage') = AllowancesOf(storage)
           /\ events' = events]_vars

\* An owner with enough balance failed to transfer_from itself: only the
\* allowance it never gave itself can have refused the call.
C3_Witness ==
    /\ last.op = "transfer_from" /\ Returned(last, FALSE)
    /\ last.caller = last.from
    /\ last.value > 0
    /\ balance_of(storage, last.from) >= last.value
    /\ (<<last.from, last.caller>> \notin DOMAIN storage.allowances)

(***************************************************************************)
(* C4  transfer_from with allowance >= value and balance >= value returns  *)
(* true, lowers the allowance (from, caller) by value, moves value from    *)
(* `from` to `to` (from # to) and appends the one event                    *)
(* Transfer(Some(from), Some(to), value).                                  *)
(***************************************************************************)
C4_DelegatedTransfer ==
    [][LET c == last'.caller
           f == last'.from
           t == last'.to
           v == last'.value
       IN  (/\ last'.op = "transfer_from"
            /\ allowance(storage, f, c) >= v
            /\ balance_of(storage, f) >= v)
           => /\ Returned(last', TRUE)
              /\ allowance(storage', f, c) = allowance(storage, f, c) - v
              /\ (f # t =>
                    /\ balance_of(storage', f) = balance_of(storage, f) - v
                    /\ balance_of(storage', t) = balance_of(storage, t) + v)
              /\ events' = Append(events, Transfer(f, t, v))]_vars

\* A spender that is neither owner nor receiver moved a positive value.
C4_Witness ==
    /\ last.op = "transfer_from" /\ Returned(last, TRUE)
    /\ last.value > 0
    /\ last.caller # last.from /\ last.from # last.to /\ last.to # last.caller
    /\ events[Len(events)] = Transfer(last.from, last.to, last.value)

(***************************************************************************)
(* C5  transfer to another account with balance >= value returns true,     *)
(* lowers the caller's balance by value, raises the receiver's by value,   *)
(* leaves every other balance alone and appends the one event              *)
(* Transfer(Some(caller), Some(to), value).                                *)
(***************************************************************************)
C5_TransferSuccess ==
    [][LET c == last'.caller
           t == last'.to
           v == last'.value
       IN  (/\ last'.op = "transfer"
            /\ balance_of(storage, c) >= v
            /\ t # c)
           => /\ Returned(last', TRUE)
              /\ balance_of(storage', c) = balance_of(storage, c) - v
              /\ balance_of(storage', t) = balance_of(storage, t) + v
              /\ \A a \in Accounts \ {c, t} :
                     balance_of(storage', a) = balance_of(storage, a)
              /\ events' = Append(events, Transfer(c, t, v))]_vars

\* A positive value was transferred to another account.
C5_Witness ==
    /\ last.op = "transfer" /\ Returned(last, TRUE)
    /\ last.value > 0 /\ last.to # last.caller
    /\ balance_of(storage, last.to) >= last.value

(***************************************************************************)
(* C6  transfer by a caller whose balance is below value returns false,    *)
(* changes no balance and emits no event.                                  *)
(***************************************************************************)
C6_TransferInsufficient ==
    [][(/\ last'.op = "transfer"
        /\ balance_of(storage, last'.caller) < last'.value)
        => /\ Returned(last', FALSE)
           /\ BalancesOf(storage') = BalancesOf(storage)
           /\ events' = events]_vars

\* An account without tokens failed to transfer while tokens exist.
C6_Witness ==
    /\ last.op = "transfer" /\ Returned(last, FALSE)
    /\ balance_of(storage, last.caller) < last.value
    /\ total_supply(storage) > 0
    /\ last.to # last.caller

(***************************************************************************)
(* C7  After approve(spender, value) by caller, allowance(caller, spender) *)
(* is value, whatever it was before: approvals overwrite, they do not add. *)
(***************************************************************************)
C7_ApproveOverwrites ==
    last.op = "approve" =>
        /\ Returned(last, TRUE)
        /\ allowance(storage, last.caller, last.to) = last.value

\* Two approvals in a row of the same positive value for the same pair:
\* the sum would be twice the value.
C7_Witness ==
    /\ last.op = "approve" /\ last.value > 0
    /\ Len(events) = 3
    /\ events[2] = Approval(last.caller, last.to, last.value)
    /\ events[3] = Approval(last.caller, last.to, last.value)

(***************************************************************************)
(* C8  The total supply is the initial supply given to new, and no         *)
(* transfer, approve or transfer_from step, successful or not, changes it. *)
(***************************************************************************)
C8_TotalSupplyFixed ==
    /\ (last.op = "new" => total_supply(storage) = last.value)
    /\ [][total_supply(storage') = total_supply(storage)]_vars

\* A transfer_from that returned false and yet changed the storage.
C8_Witness ==
    /\ last.op = "transfer_from" /\ Returned(last, FALSE)
    /\ ~last.noop
    /\ total_supply(storage) = events[1].value

(***************************************************************************)
(* C9  Right after new(s) by creator c: total supply s, balance of c is s, *)
(* every other balance 0, every allowance 0, and the event log is exactly  *)
(* <<Transfer(None, Some(c), s)>>.                                         *)
(***************************************************************************)
C9_Initialization ==
    last.op = "new" =>
        /\ total_supply(storage) = last.value
        /\ balance_of(storage, last.caller) = last.value
        /\ \A a \in Accounts \ {last.caller} : balance_of(storage, a) = 0
        /\ \A o \in Accounts, p \in Accounts : allowance(storage, o, p) = 0
        /\ events = <<Transfer(None, last.caller, last.value)>>

\* A contract deployed with supply 0 by an account other than Creator.
C9_Witness ==
    /\ last.op = "new" /\ last.value = 0 /\ last.caller = "eve"
    /\ Len(events) = 1

(***************************************************************************)
(* C10  In every reachable state every balance lies between 0 and the      *)
(* total supply.                                                           *)
(***************************************************************************)
C10_BalanceInRange ==
    \A a \in Accounts :
        /\ balance_of(storage, a) >= 0
        /\ balance_of(storage, a) <= total_supply(storage)

\* The whole positive supply has moved to an account that is not Creator.
C10_Witness ==
    \E a \in Accounts \ {Creator} :
        /\ total_supply(storage) > 0
        /\ balance_of(storage, a) = total_supply(storage)

(***************************************************************************)
(* The event a call emits when it returns true.                            *)
(***************************************************************************)
EventOf(l) ==
    IF l.op = "approve"
    THEN Approval(l.caller, l.to, l.value)
    ELSE Transfer(l.from, l.to, l.value)

(***************************************************************************)
(* C11  The event log is the Transfer(None, creator, supply) of new,       *)
(* followed by exactly one event per call that returned true, in call      *)
(* order (Approval for approve, Transfer(Some(from), Some(to), value) for  *)
(* transfer and transfer_from), and nothing for a call that returned false.*)
(***************************************************************************)
C11_EventLog ==
    /\ (last.op = "new" =>
            events = <<Transfer(None, last.caller, last.value)>>)
    /\ [][IF Returned(last', TRUE)
          THEN events' = Append(events, EventOf(last'))
          ELSE events' = events]_vars

\* The log holds the three kinds of event in call order: the creation, an
\* approval, and the delegated transfer the approval allowed.
C11_Witness ==
    /\ Len(events) = 3
    /\ events[1].from = None
    /\ events[2].kind = "Approval" /\ events[2].value > 0
    /\ last.op = "transfer_from" /\ Returned(last, TRUE)
    /\ events[3] = Transfer(events[2].owner, last.to, events[2].value)
    /\ last.caller = events[2].spender

(***************************************************************************)
(* C12  approve always returns true, also for spender = caller and for a   *)
(* value above the caller's balance, and leaves every balance, the total   *)
(* supply and every allowance other than (caller, spender) as they were.   *)
(***************************************************************************)
C12_ApproveFrame ==
    [][last'.op = "approve"
        => /\ Returned(last', TRUE)
           /\ BalancesOf(storage') = BalancesOf(storage)
           /\ total_supply(storage') = total_supply(storage)
           /\ \A o \in Accounts, p \in Accounts :
                  <<o, p>> # <<last'.caller, last'.to>>
                  => allowance(storage', o, p) = allowance(storage, o, p)]_vars

\* An account approved itself for more than its balance.
C12_Witness ==
    /\ last.op = "approve" /\ Returned(last, TRUE)
    /\ last.to = last.caller
    /\ last.value > balance_of(storage, last.caller)
    /\ allowance(storage, last.caller, last.caller) = last.value

(***************************************************************************)
(* C14  transfer_from with allowance >= value and balance of `from` below  *)
(* value returns false, emits no event and changes no balance, yet the     *)
(* allowance (from, caller) has dropped by value.                          *)
(***************************************************************************)
C14_NonAtomicTransferFrom ==
    [][LET c == last'.caller
           f == last'.from
           v == last'.value
       IN  (/\ last'.op = "transfer_from"
            /\ allowance(storage, f, c) >= v
            /\ balance_of(storage, f) < v)
           => /\ Returned(last', FALSE)
              /\ events' = events
              /\ BalancesOf(storage') = BalancesOf(storage)
              /\ allowance(storage', f, c) = allowance(storage, f, c) - v]_vars

\* A failed transfer_from used up the whole allowance an Approval event
\* had announced.
C14_Witness ==
    /\ last.op = "transfer_from" /\ Returned(last, FALSE)
    /\ last.value > 0
    /\ events[Len(events)] = Approval(last.from, last.caller, last.value)
    /\ allowance(storage, last.from, last.caller) = 0
    /\ balance_of(storage, last.from) < last.value

(***************************************************************************)
(* C15  (as stated) A transfer or transfer_from with from = to and         *)
(* balance_of(from) >= value returns true, leaves every balance as it was  *)
(* and appends one Transfer(Some(from), Some(from), value).                *)
(***************************************************************************)
C15_SelfTransferAsStated ==
    [][LET f == last'.from
           v == last'.value
       IN  (/\ last'.op \in {"transfer", "transfer_from"}
            /\ last'.to = f
            /\ balance_of(storage, f) >= v)
           => /\ Returned(last', TRUE)
              /\ BalancesOf(storage') = BalancesOf(storage)
              /\ events' = Append(events, Transfer(f, f, v))]_vars

(***************************************************************************)
(* C15  (amended) A transfer, or a transfer_from whose caller has          *)
(* allowance(from, caller) >= value, with from = to and balance_of(from)   *)
(* >= value returns true, leaves every balance as it was and appends one   *)
(* Transfer(Some(from), Some(from), value).                                *)
(***************************************************************************)
C15_SelfTransfer ==
    [][LET f == last'.from
           v == last'.value
       IN  (/\ last'.op \in {"transfer", "transfer_from"}
            /\ last'.to = f
            /\ balance_of(storage, f) >= v
            /\ (last'.op = "transfer_from"
                    => allowance(storage, f, last'.caller) >= v))
           => /\ Returned(last', TRUE)
              /\ BalancesOf(storage') = BalancesOf(storage)
              /\ events' = Append(events, Transfer(f, f, v))]_vars

\* A spender moved a positive value from an owner to that same owner.
C15_Witness ==
    /\ last.op = "transfer_from" /\ Returned(last, TRUE)
    /\ last.to = last.from /\ last.caller # last.from
    /\ last.value > 0
    /\ balance_of(storage, last.from) = total_supply(storage)

(***************************************************************************)
(* C16  No wrapped or negative value: in no call from a reachable state    *)
(* does from_balance - value or allowance - value go below 0 or            *)
(* to_balance + value above the Balance maximum.  (balance_sub and         *)
(* balance_add give a panic among their outcomes exactly when the result   *)
(* is out of range, and a panic is recorded as a trap.)                    *)
(***************************************************************************)
C16_NoOverflow == ~last.trap

\* An addition reached the Balance maximum exactly.
C16_Witness ==
    /\ last.op \in {"transfer", "transfer_from"} /\ Returned(last, TRUE)
    /\ last.value > 0 /\ last.to # last.from
    /\ balance_of(storage, last.to) = MaxBalance

(***************************************************************************)
(* C17  The balance of an account A drops in a step only if the step is a  *)
(* transfer called by A, or a transfer_from(A, to, value) whose caller had *)
(* allowance(A, caller) >= value before the step.                          *)
(***************************************************************************)
C17_AuthorizedDebit ==
    [][\A A \in Accounts :
          balance_of(storage', A) < balance_of(storage, A)
          => \/ last'.op = "transfer" /\ last'.caller = A
             \/ /\ last'.op = "transfer_from"
                /\ last'.from = A
                /\ allowance(storage, A, last'.caller) >= last'.value]_vars

\* A transfer_from by another account emptied the balance of its owner.
C17_Witness ==
    /\ last.op = "transfer_from" /\ Returned(last, TRUE)
    /\ last.caller # last.from /\ last.to # last.from
    /\ last.value > 0
    /\ balance_of(storage, last.from) = 0

(***************************************************************************)
(* C19  transfer changes no allowance; transfer_from changes at most the   *)
(* allowance (from, caller) and at most the balances of from and to; an    *)
(* allowance (o, s) increases only in an approve step called by o.         *)
(***************************************************************************)
C19_TransferFrame ==
    [][/\ last'.op = "transfer"
          => AllowancesOf(storage') = AllowancesOf(storage)
       /\ last'.op = "transfer_from"
          => /\ \A o \in Accounts, p \in Accounts :
                    <<o, p>> # <<last'.from, last'.caller>>
                    => allowance(storage', o, p) = allowance(storage, o, p)
             /\ \A a \in Accounts \ {last'.from, last'.to} :
                    balance_of(storage', a) = balance_of(storage, a)
       /\ \A o \in Accounts, p \in Accounts :
              allowance(storage', o, p) > allowance(storage, o, p)
              => last'.op = "approve" /\ last'.caller = o]_vars

\* A spender moved a positive value from an owner to itself: its allowance
\* and two balances changed.
C19_Witness ==
    /\ last.op = "transfer_from" /\ Returned(last, TRUE)
    /\ last.value > 0
    /\ last.to = last.caller /\ last.caller # last.from
    /\ balance_of(storage, last.to) = last.value
    /\ <<last.from, last.caller>> \in DOMAIN storage.allowances

(***************************************************************************)
(* C20  transfer_from(from, to, 0) returns true for any caller, from and   *)
(* to in any reachable state, approved or not, appends                     *)
(* Transfer(Some(from), Some(to), 0), and leaves every balance and every   *)
(* allowance, as the queries show them, as they were.                      *)
(***************************************************************************)
C20_ZeroTransferFrom ==
    [][(last'.op = "transfer_from" /\ last'.value = 0)
        => /\ Returned(last', TRUE)
           /\ events' = Append(events, Transfer(last'.from, last'.to, 0))
           /\ BalancesOf(storage') = BalancesOf(storage)
           /\ AllowancesOf(storage') = AllowancesOf(storage)]_vars

\* A caller nobody approved moved 0 from an account without tokens.
C20_Witness ==
    /\ last.op = "transfer_from" /\ Returned(last, TRUE)
    /\ last.value = 0
    /\ last.caller # last.from /\ last.to # last.from
    /\ \A e \in 1..Len(events) : events[e].kind # "Approval"
    /\ balance_of(storage, last.from) = 0

====
